---- MODULE Spec2Model ----
(***************************************************************************)
(* State-machine model of the backend of the performance optimization      *)
(* platform: the alert registry (monitoring.py, AlertManager), the history *)
(* stores (monitoring.py, MetricsCollector.metrics_store and               *)
(* hardware_monitor.py, HardwareMonitor.metrics_history) with their        *)
(* queries, the full analysis cycle (main.py, run_full_analysis), the      *)
(* container orchestrator (orchestration.py, ContainerOrchestrator) and    *)
(* the auto-optimization task (main.py, run_auto_optimization).            *)
(*                                                                         *)
(* Conventions.                                                            *)
(*  - Time is an integer number of minutes; datetime.now() reads `now`.    *)
(*  - Percentages are integers in tenths of a percent (82.5 is 825), so    *)
(*    that the literals of the source stay exact.                          *)
(*  - uuid.uuid4() is a fresh identifier: the next value of a counter.     *)
(*  - A Python dict is a record; the optional keys of an alert ("metric",  *)
(*    "current_value", "threshold", "dismissed_at") hold NoMetric or       *)
(*    Absent while the alert's dict lacks them.                            *)
(*  - Free text and lists that no code reads back (an alert's description, *)
(*    the message of a returned dict beyond its kind, the query and issue  *)
(*    lists of the analyzers) are left out of the records.                 *)
(***************************************************************************)
EXTENDS Integers, Sequences, FiniteSets, TLC

VARIABLES
    now,            \* the wall clock read by datetime.now()
    active_alerts,  \* AlertManager.active_alerts (every alert, any status)
    next_id,        \* source of fresh uuid4 values
    ret,            \* the last AlertManager call and what it returned
    metrics_store,  \* MetricsCollector.metrics_store
    metrics_history,\* HardwareMonitor.metrics_history
    req,            \* the run_full_analysis requests in flight, by request
    appended,       \* how many entries each history store was handed so far
    queried,        \* the last history query and what it returned
    containers,     \* ContainerOrchestrator.containers
    load_balancer_config, \* ContainerOrchestrator.load_balancer_config
    scaling,        \* the scale_service calls in flight, by call
    orch_ret,       \* the last ContainerOrchestrator call and what it returned
    auto            \* the run_auto_optimization background task

alertVars == <<active_alerts, next_id, ret>>
historyVars == <<metrics_store, metrics_history, appended, queried>>
orchVars == <<containers, load_balancer_config, scaling, orch_ret, auto>>

----------------------------------------------------------------------------
(* Bounds of the model.                                                    *)

\* The clock starts here, so that the sample alerts' times (now - 60 min)
\* stay natural numbers.
StartTime == 60
\* The clock advances at most this many minutes.
MaxTicks == 1
\* At most this many alerts are created on top of the three sample alerts.
MaxNewAlerts == 2
\* The capacity of MetricsCollector.metrics_store ("> 1000", monitoring.py:39),
\* scaled down so that the store fills and evicts.
MetricsStoreLimit == 3
\* HardwareMonitor.max_history_size (1000, hardware_monitor.py:15), scaled down
\* likewise.
max_history_size == 3

----------------------------------------------------------------------------
(* Values.                                                                 *)

Absent == -1
NoMetric == "none"

\* monitoring.py:266 and :273, "> 85", in tenths of a percent
CpuLimit == 850
\* monitoring.py:278 and :285, "> 85", in tenths of a percent
MemoryLimit == 850
\* monitoring.py:290 and :297, "> 1", in tenths of a percent
ErrorRateLimit == 10

\* dict.get(key, default)
DictGet(d, key, default) == IF key \in DOMAIN d THEN d[key] ELSE default

\* The dict d without the keys outside K.
Restrict(d, K) == [k \in (DOMAIN d) \cap K |-> d[k]]

\* The metrics dicts handed to check_thresholds: every subset of the three
\* metrics the rules read, the CPU at its limit or above it, the others above.
MetricsInputs ==
    { Restrict([cpu_percent |-> c, memory_percent |-> MemoryLimit + 70,
                error_rate_percent |-> ErrorRateLimit + 10], K) :
        c \in {CpuLimit, CpuLimit + 50},
        K \in SUBSET {"cpu_percent", "memory_percent", "error_rate_percent"} }

----------------------------------------------------------------------------
(* AlertManager (monitoring.py)                                            *)

\* AlertManager._initialize_alerts: the three sample alerts.
InitialAlerts(t) ==
    << [id |-> 1, severity |-> "warning", title |-> "High Memory Usage",
        metric |-> "memory_percent", current_value |-> 825, threshold |-> 800,
        time |-> t - 2, status |-> "active", acknowledged |-> FALSE,
        dismissed_at |-> Absent],
       [id |-> 2, severity |-> "info", title |-> "Scheduled Maintenance Window",
        metric |-> NoMetric, current_value |-> Absent, threshold |-> Absent,
        time |-> t - 15, status |-> "active", acknowledged |-> FALSE,
        dismissed_at |-> Absent],
       [id |-> 3, severity |-> "warning", title |-> "Slow Query Detected",
        metric |-> "query_time_ms", current_value |-> 2350, threshold |-> 2000,
        time |-> t - 60, status |-> "active", acknowledged |-> FALSE,
        dismissed_at |-> Absent] >>

\* AlertManager.get_active_alerts
get_active_alerts(alerts) == SelectSeq(alerts, LAMBDA a : a.status = "active")

\* The record create_alert builds; "if metric:" keeps the three metric fields
\* only for a metric that is given.
NewAlert(id, t, severity, title, metric, current_value, threshold) ==
    [id |-> id, severity |-> severity, title |-> title,
     metric |-> metric,
     current_value |-> IF metric = NoMetric THEN Absent ELSE current_value,
     threshold |-> IF metric = NoMetric THEN Absent ELSE threshold,
     time |-> t, status |-> "active", acknowledged |-> FALSE,
     dismissed_at |-> Absent]

\* AlertManager.create_alert: the registry after the call (the new alert is
\* appended whatever the registry holds).
create_alert(alerts, id, t, severity, title, metric, current_value, threshold) ==
    Append(alerts, NewAlert(id, t, severity, title, metric, current_value, threshold))

\* A slip in the lookup: when no alert has the id, the loop variable is used
\* after the loop, where it is still bound to the last alert.
FindAlertFallsThrough(alerts, alert_id) ==
    IF \E i \in 1..Len(alerts) : alerts[i].id = alert_id
    THEN CHOOSE i \in 1..Len(alerts) :
            /\ alerts[i].id = alert_id
            /\ \A j \in 1..(i - 1) : alerts[j].id # alert_id
    ELSE Len(alerts)

\* The index of the first alert with this id, 0 when there is none
\* (the "for alert in self.active_alerts: if alert["id"] == alert_id" loop).
FindAlert(alerts, alert_id) ==
    IF \E i \in 1..Len(alerts) : alerts[i].id = alert_id
    THEN CHOOSE i \in 1..Len(alerts) :
            /\ alerts[i].id = alert_id
            /\ \A j \in 1..(i - 1) : alerts[j].id # alert_id
    ELSE 0

\* A slip in the write: the status is toggled instead of set.
DismissedToggles(alert, t) ==
    [alert EXCEPT !.status = IF @ = "dismissed" THEN "active" ELSE "dismissed",
                  !.acknowledged = TRUE, !.dismissed_at = t]

\* What dismiss_alert writes into the alert it found.
Dismissed(alert, t) ==
    [alert EXCEPT !.status = "dismissed", !.acknowledged = TRUE, !.dismissed_at = t]

\* AlertManager.dismiss_alert: the registry after the call.
dismiss_alert(alerts, alert_id, t) ==
    LET i == FindAlert(alerts, alert_id)
    IN  IF i = 0 THEN alerts ELSE [alerts EXCEPT ![i] = Dismissed(alerts[i], t)]

\* The rules of check_thresholds, in the order the code evaluates them.
Rules ==
    << [metric |-> "cpu_percent", limit |-> CpuLimit, severity |-> "warning",
        title |-> "High CPU Usage"],
       [metric |-> "memory_percent", limit |-> MemoryLimit, severity |-> "warning",
        title |-> "High Memory Usage"],
       [metric |-> "error_rate_percent", limit |-> ErrorRateLimit,
        severity |-> "critical", title |-> "High Error Rate"] >>

\* A slip in the comparison: ">=" for ">", so a value at the limit breaches.
BreachesAtLimit(metrics, rule) == DictGet(metrics, rule.metric, 0) >= rule.limit

\* "if metrics.get(<metric>, 0) > <limit>"
Breaches(metrics, rule) == DictGet(metrics, rule.metric, 0) > rule.limit

\* A slip in the lookup: metrics[<metric>] for metrics.get(<metric>, 0), so the
\* first rule whose metric is missing ends the evaluation.
BreachedRulesStopAtMissing(metrics) ==
    LET missing == { k \in 1..Len(Rules) : Rules[k].metric \notin DOMAIN metrics }
        stop == IF missing = {} THEN Len(Rules) + 1
                ELSE CHOOSE k \in missing : \A j \in missing : k <= j
    IN  SelectSeq(SubSeq(Rules, 1, stop - 1), LAMBDA r : Breaches(metrics, r))

\* The rules that breach, in evaluation order.
BreachedRules(metrics) == SelectSeq(Rules, LAMBDA r : Breaches(metrics, r))

\* AlertManager.check_thresholds: one create_alert per breached rule, each with
\* a fresh id; the alerts created, in order.
CreatedBy(metrics, first_id, t) ==
    LET br == BreachedRules(metrics)
    IN  [k \in 1..Len(br) |->
            NewAlert(first_id + k - 1, t, br[k].severity, br[k].title,
                     br[k].metric, metrics[br[k].metric], br[k].limit)]

\* AlertManager.check_thresholds: the registry after the call.
check_thresholds(alerts, metrics, first_id, t) ==
    alerts \o CreatedBy(metrics, first_id, t)

----------------------------------------------------------------------------
(* The calls, as actions.                                                  *)

\* ret: the call, its alert_id argument, the status the alert it found had when
\* the call was made, the "status" and "message" of the dict it returned, and
\* the ids of the alerts that dict holds.
NoCall ==
    [op |-> "none", alert_id |-> Absent, before |-> "none", status |-> "none",
     message |-> "none", alerts |-> << >>]

Ids(alerts) == [k \in 1..Len(alerts) |-> alerts[k].id]

\* The direct create_alert calls tried: one with a metric, one without.
CreateInputs ==
    { [severity |-> "critical", title |-> "High Error Rate",
       metric |-> "error_rate_percent", current_value |-> ErrorRateLimit + 10,
       threshold |-> ErrorRateLimit],
      [severity |-> "info", title |-> "Deployment Finished",
       metric |-> NoMetric, current_value |-> Absent, threshold |-> Absent] }

CanCreate(n) == Len(active_alerts) + n <= Len(InitialAlerts(StartTime)) + MaxNewAlerts

DismissAlert(alert_id) ==
    LET i == FindAlert(active_alerts, alert_id)
        after == dismiss_alert(active_alerts, alert_id, now)
    IN  /\ active_alerts' = after
        /\ ret' = IF i = 0
                  THEN [NoCall EXCEPT !.op = "dismiss_alert", !.alert_id = alert_id,
                                      !.status = "error", !.message = "not found"]
                  ELSE [NoCall EXCEPT !.op = "dismiss_alert", !.alert_id = alert_id,
                                      !.before = active_alerts[i].status,
                                      !.status = "success", !.message = "dismissed",
                                      !.alerts = <<after[i].id>>]
        /\ UNCHANGED <<orchVars, now, next_id, historyVars, req>>

CreateAlert(c) ==
    /\ CanCreate(1)
    /\ active_alerts' = create_alert(active_alerts, next_id, now, c.severity, c.title,
                                     c.metric, c.current_value, c.threshold)
    /\ next_id' = next_id + 1
    /\ ret' = [NoCall EXCEPT !.op = "create_alert", !.status = "success",
                             !.alerts = <<next_id>>]
    /\ UNCHANGED <<orchVars, now, historyVars, req>>

CheckThresholds(metrics) ==
    LET created == CreatedBy(metrics, next_id, now)
    IN  /\ CanCreate(Len(created))
        /\ active_alerts' = check_thresholds(active_alerts, metrics, next_id, now)
        /\ next_id' = next_id + Len(created)
        /\ ret' = [NoCall EXCEPT !.op = "check_thresholds", !.status = "success",
                                 !.alerts = Ids(created)]
        /\ UNCHANGED <<orchVars, now, historyVars, req>>

\* Time passes between calls.
Tick ==
    /\ now < StartTime + MaxTicks
    /\ now' = now + 1
    /\ UNCHANGED <<orchVars, alertVars, historyVars, req>>

\* The ids dismiss_alert is called with: one that no alert ever has, a sample
\* alert's, and that of the first alert created (unknown until then).
DismissIds == {0, 1, 4}

Dismiss == \E alert_id \in DismissIds : DismissAlert(alert_id)
Create == \E c \in CreateInputs : CreateAlert(c)
Check == \E metrics \in MetricsInputs : CheckThresholds(metrics)

----------------------------------------------------------------------------
(* The history stores.                                                     *)

\* A slip in the eviction: the comparison is made before the append's effect
\* is counted, so the list is trimmed one entry too late.
store_analysis_late(store, analysis_data, t) ==
    LET longer == Append(store, [timestamp |-> t, data |-> analysis_data])
    IN  IF Len(store) > MetricsStoreLimit THEN Tail(longer) ELSE longer

\* A slip in the append: the entry is appended twice.
store_analysis_twice(store, analysis_data, t) ==
    LET longer == Append(Append(store, [timestamp |-> t, data |-> analysis_data]),
                         [timestamp |-> t, data |-> analysis_data])
    IN  IF Len(longer) > MetricsStoreLimit THEN Tail(longer) ELSE longer

\* A slip in the bookkeeping: every entry kept is stamped with the time of the
\* latest append.
store_analysis_restamps(store, analysis_data, t) ==
    LET longer == Append(store, [timestamp |-> t, data |-> analysis_data])
        kept == IF Len(longer) > MetricsStoreLimit THEN Tail(longer) ELSE longer
    IN  [k \in 1..Len(kept) |-> [kept[k] EXCEPT !.timestamp = t]]

\* MetricsCollector.store_analysis: the store after the call (append, then
\* pop(0) once the list is longer than the limit).
store_analysis(store, analysis_data, t) ==
    LET longer == Append(store, [timestamp |-> t, data |-> analysis_data])
    IN  IF Len(longer) > MetricsStoreLimit THEN Tail(longer) ELSE longer

\* A slip in the eviction: pop() for pop(0), which removes the entry that was
\* just appended.
store_metrics_drops_newest(history, metrics) ==
    LET longer == Append(history, metrics)
    IN  IF Len(longer) > max_history_size THEN SubSeq(longer, 1, Len(longer) - 1)
        ELSE longer

\* HardwareMonitor._store_metrics: the history after the call.
store_metrics(history, metrics) ==
    LET longer == Append(history, metrics)
    IN  IF Len(longer) > max_history_size THEN Tail(longer) ELSE longer

----------------------------------------------------------------------------
(* The six sources that run_full_analysis gathers.  A source's outcome is   *)
(* an input: "ok", or "raise" when an exception arises in its body.  The    *)
(* values a successful source measures or draws at random are one           *)
(* representative reading each.                                             *)

Sources == <<"code", "database", "async", "hardware", "network", "container">>
SourceNames == { Sources[k] : k \in 1..Len(Sources) }
Outcomes == {"ok", "raise"}

\* The exception object asyncio.gather(return_exceptions=True) puts in the
\* place of the result of an awaitable that raised.
ExceptionOf(source) == [exception |-> source]
IsException(result) == "exception" \in DOMAIN result

Max(a, b) == IF a >= b THEN a ELSE b

\* CodeAnalyzer.analyze_code_efficiency: its own "except Exception" returns a
\* fallback dict with an "error" key.
analyze_code_efficiency(outcome) ==
    IF outcome = "ok"
    THEN [efficiency_score |-> Max(0, 100 - (2 * 5)), total_files |-> 9,
          complex_functions |-> 2, issues_count |-> 2]
    ELSE [efficiency_score |-> 75, total_files |-> 0, issues_count |-> 0,
          error |-> "code"]

\* DatabaseAnalyzer.analyze_queries: no handler of its own.
analyze_queries(outcome) ==
    IF outcome = "ok" THEN [optimization_score |-> 65] ELSE ExceptionOf("database")

\* AsyncAnalyzer.detect_async_patterns: no handler of its own.
detect_async_patterns(outcome) ==
    IF outcome = "ok" THEN [async_score |-> 80] ELSE ExceptionOf("async")

\* The recommendations get_current_metrics derives from its readings.
HardwareRecommendations(cpu, memory, disk) ==
    (IF cpu > 800 THEN <<[type |-> "cpu", severity |-> "high"]>> ELSE << >>)
    \o (IF memory > 800 THEN <<[type |-> "memory", severity |-> "high"]>> ELSE << >>)
    \o (IF disk > 850 THEN <<[type |-> "disk", severity |-> "medium"]>> ELSE << >>)

\* The psutil readings tried (cpu, memory and disk percent, in tenths).
HardwareReadings ==
    { [cpu |-> 455, memory |-> 620, disk |-> 453],
      [cpu |-> 900, memory |-> 880, disk |-> 870] }

\* The metrics dict get_current_metrics builds when psutil answers.
HardwareMetrics(reading, t) ==
    [cpu_percent |-> reading.cpu, memory_percent |-> reading.memory,
     disk_percent |-> reading.disk, disk_score |-> Max(0, 1000 - reading.disk),
     recommendations |-> HardwareRecommendations(reading.cpu, reading.memory, reading.disk),
     timestamp |-> t]

\* HardwareMonitor._get_mock_metrics
get_mock_metrics(t) ==
    [cpu_percent |-> 685, memory_percent |-> 752, disk_percent |-> 453,
     disk_score |-> 820,
     recommendations |-> <<[type |-> "memory", severity |-> "medium"]>>,
     timestamp |-> t]

\* HardwareMonitor.get_current_metrics: what it returns; its "except Exception"
\* returns the mock metrics.
get_current_metrics(outcome, reading, t) ==
    IF outcome = "ok" THEN HardwareMetrics(reading, t) ELSE get_mock_metrics(t)

\* HardwareMonitor.get_current_metrics: the history after the call; only the
\* path on which psutil answers stores the metrics.
HistoryAfterMetrics(history, outcome, reading, t) ==
    IF outcome = "ok" THEN store_metrics(history, HardwareMetrics(reading, t)) ELSE history

\* NetworkAnalyzer.measure_performance (values in tenths): its
\* "except Exception" returns _get_mock_performance().
measure_performance(outcome, t) ==
    IF outcome = "ok"
    THEN [latency_ms |-> 1000, throughput_mbps |-> 1000, packet_loss |-> 3,
          connection_quality |-> "poor", optimization_count |-> 7, timestamp |-> t]
    ELSE [latency_ms |-> 453, throughput_mbps |-> 885, packet_loss |-> 2,
          connection_quality |-> "good", optimization_count |-> 7, timestamp |-> t]

\* ContainerOrchestrator.get_container_health (scores in tenths): its
\* "except Exception" returns a fallback dict with an "error" key.
get_container_health(outcome, t) ==
    IF outcome = "ok"
    THEN [health_score |-> 750, disk_iops_score |-> 880, load_balance_score |-> 927,
          alerts_count |-> 1, total_containers |-> 4, healthy |-> 3, warning |-> 1,
          critical |-> 0, timestamp |-> t]
    ELSE [health_score |-> 950, disk_iops_score |-> 850, load_balance_score |-> 900,
          alerts_count |-> 3, error |-> "container"]

----------------------------------------------------------------------------
(* run_full_analysis (main.py)                                             *)

\* The analysis_data dict, built from six results that are all dicts.
AnalysisData(results, t, user) ==
    LET software_results == results[1]
        db_results == results[2]
        async_results == results[3]
        hardware_results == results[4]
        network_results == results[5]
        container_results == results[6]
    IN  [software |->
            [codeEfficiency |-> DictGet(software_results, "efficiency_score", 0),
             dbOptimization |-> DictGet(db_results, "optimization_score", 0),
             asyncProcessing |-> DictGet(async_results, "async_score", 0),
             issues |-> DictGet(software_results, "issues_count", 0),
             details |-> software_results],
         hardware |->
            [cpuUtilization |-> DictGet(hardware_results, "cpu_percent", 0),
             memoryUsage |-> DictGet(hardware_results, "memory_percent", 0),
             diskPerformance |-> DictGet(hardware_results, "disk_score", 0),
             recommendations |-> DictGet(hardware_results, "recommendations", << >>),
             details |-> hardware_results],
         network |->
            [latency |-> DictGet(network_results, "latency_ms", 0),
             throughput |-> DictGet(network_results, "throughput_mbps", 0),
             packetLoss |-> DictGet(network_results, "packet_loss", 0),
             optimization |-> DictGet(network_results, "optimization_count", 0),
             details |-> network_results],
         io |->
            [diskIOPS |-> DictGet(container_results, "disk_iops_score", 0),
             loadBalance |-> DictGet(container_results, "load_balance_score", 0),
             containerHealth |-> DictGet(container_results, "health_score", 0),
             alerts |-> DictGet(container_results, "alerts_count", 0),
             details |-> container_results],
         timestamp |-> t,
         analyzed_by |-> user]

\* What the body of run_full_analysis makes of the gathered results: an
\* exception object has no get(), the AttributeError is caught by
\* "except Exception" and turned into HTTPException(500, "Analysis failed").
Respond(results, t, user) ==
    IF \E k \in 1..Len(results) : IsException(results[k])
    THEN [status_code |-> 500, detail |-> "Analysis failed"]
    ELSE [status_code |-> 200, body |-> AnalysisData(results, t, user)]

Requests == {"r1", "r2"}
User == "alice"

\* The sources that may never return.
HangSources == {"database", "network"}

NoResult == [pending |-> TRUE]

\* A request: where it stands, the sources that hang, the sources in whose
\* body an exception arose, the hardware source's result (it is the one source
\* that writes shared state), the six results gather returned, the response,
\* and the background task metrics_collector.store_analysis(analysis_data).
IdleRequest ==
    [pc |-> "idle", hung |-> {}, raised |-> {}, hardware |-> NoResult,
     results |-> << >>, response |-> NoResult, task |-> "none"]

\* The request arrives and asyncio.gather starts the six sources.
StartCycle(r) ==
    /\ req[r].pc = "idle"
    /\ req' = [req EXCEPT ![r].pc = "gathering"]
    /\ UNCHANGED <<orchVars, now, alertVars, historyVars>>

\* hardware_monitor.get_current_metrics() returns to gather.
HardwareReturns(r) ==
    /\ req[r].pc = "gathering"
    /\ req[r].hardware = NoResult
    /\ \E outcome \in Outcomes, reading \in HardwareReadings :
          /\ req' = [req EXCEPT ![r].hardware = get_current_metrics(outcome, reading, now),
                                 ![r].raised = IF outcome = "raise"
                                               THEN @ \cup {"hardware"} ELSE @]
          /\ metrics_history' = HistoryAfterMetrics(metrics_history, outcome, reading, now)
          /\ appended' = [appended EXCEPT !.metrics = IF outcome = "ok" THEN @ + 1 ELSE @]
    /\ UNCHANGED <<orchVars, now, alertVars, metrics_store, queried>>

\* A source never returns.
SourceHangs(r) ==
    /\ req[r].pc = "gathering"
    /\ \E s \in HangSources \ req[r].hung :
          req' = [req EXCEPT ![r].hung = @ \cup {s}]
    /\ UNCHANGED <<orchVars, now, alertVars, historyVars>>

\* The results gather returns, in the order of its arguments.
Gathered(outcome, hardware_result, t) ==
    << analyze_code_efficiency(outcome["code"]),
       analyze_queries(outcome["database"]),
       detect_async_patterns(outcome["async"]),
       hardware_result,
       measure_performance(outcome["network"], t),
       get_container_health(outcome["container"], t) >>

\* Another body of run_full_analysis: once gather has returned, it hands the
\* hardware metrics to alert_manager.check_thresholds before it responds.
GatherReturnsChecksThresholds(r) ==
    /\ req[r].pc = "gathering"
    /\ req[r].hardware # NoResult
    /\ req[r].hung = {}
    /\ \E outcome \in [SourceNames \ {"hardware"} -> Outcomes] :
          LET results == Gathered(outcome, req[r].hardware, now)
              response == Respond(results, now, User)
          IN  req' = [req EXCEPT ![r].pc = "responded",
                                 ![r].raised =
                                     @ \cup { s \in DOMAIN outcome : outcome[s] = "raise" },
                                 ![r].results = results,
                                 ![r].response = response,
                                 ![r].task = IF response.status_code = 200
                                             THEN "pending" ELSE "none"]
    /\ active_alerts' = check_thresholds(active_alerts, req[r].hardware, next_id, now)
    /\ next_id' = next_id + Len(CreatedBy(req[r].hardware, next_id, now))
    /\ UNCHANGED <<orchVars, now, ret, historyVars>>

\* Every source has returned: gather returns, and the rest of the body runs
\* (build analysis_data, add the background task, respond; or fail).
GatherReturns(r) ==
    /\ req[r].pc = "gathering"
    /\ req[r].hardware # NoResult
    /\ req[r].hung = {}
    /\ \E outcome \in [SourceNames \ {"hardware"} -> Outcomes] :
          LET results == Gathered(outcome, req[r].hardware, now)
              response == Respond(results, now, User)
          IN  req' = [req EXCEPT ![r].pc = "responded",
                                 ![r].raised =
                                     @ \cup { s \in DOMAIN outcome : outcome[s] = "raise" },
                                 ![r].results = results,
                                 ![r].response = response,
                                 ![r].task = IF response.status_code = 200
                                             THEN "pending" ELSE "none"]
    /\ UNCHANGED <<orchVars, now, alertVars, historyVars>>

\* The background task runs after the response has been sent.
RunStoreAnalysis(r) ==
    /\ req[r].pc = "responded"
    /\ req[r].task = "pending"
    /\ metrics_store' = store_analysis(metrics_store, req[r].response.body, now)
    /\ appended' = [appended EXCEPT !.analysis = @ + 1]
    /\ req' = [req EXCEPT ![r].task = "done"]
    /\ UNCHANGED <<orchVars, now, alertVars, metrics_history, queried>>

----------------------------------------------------------------------------
(* The history stores on their own: the calls that write them, from any     *)
(* cycle or endpoint, in any order.                                         *)

\* The analysis_data dicts handed to store_analysis: those of a cycle whose
\* sources all succeeded and of one whose guarded sources all fell back.
AnalysisInputs ==
    { AnalysisData(
          Gathered([s \in SourceNames \ {"hardware"} |->
                       IF s \in {"database", "async"} THEN "ok" ELSE outcome],
                   get_current_metrics(outcome, CHOOSE x \in HardwareReadings : TRUE,
                                       StartTime),
                   StartTime),
          StartTime, User) : outcome \in Outcomes }

\* A background task store_analysis(analysis_data) runs.
StoreAnalysisTask ==
    /\ appended.analysis < MetricsStoreLimit + 2
    /\ \E analysis_data \in AnalysisInputs :
          metrics_store' = store_analysis(metrics_store, analysis_data, now)
    /\ appended' = [appended EXCEPT !.analysis = @ + 1]
    /\ UNCHANGED <<orchVars, now, alertVars, metrics_history, queried, req>>

\* hardware_monitor.get_current_metrics() is called (by an endpoint or a cycle).
GetCurrentMetrics ==
    /\ appended.metrics < max_history_size + 2
    /\ \E outcome \in Outcomes, reading \in HardwareReadings :
          /\ metrics_history' = HistoryAfterMetrics(metrics_history, outcome, reading, now)
          /\ appended' = [appended EXCEPT !.metrics = IF outcome = "ok" THEN @ + 1 ELSE @]
    /\ UNCHANGED <<orchVars, now, alertVars, metrics_store, queried, req>>

----------------------------------------------------------------------------
(* The history queries.  The values the code draws at random are one       *)
(* representative draw each.                                                *)

\* The `hours` arguments tried.
QueryHours == {0, 1, 2}

NoQuery == [op |-> "none"]

RECURSIVE Sum(_)
Sum(seq) == IF seq = << >> THEN 0 ELSE Head(seq) + Sum(Tail(seq))

RECURSIVE MaxOf(_)
MaxOf(seq) == IF Len(seq) = 1 THEN Head(seq) ELSE Max(Head(seq), MaxOf(Tail(seq)))

\* The data points HardwareMonitor.get_metrics_history generates: one per hour
\* of the window, "for i in range(hours)" with timestamp now - (hours - i) h.
HardwareDataPoints(hours, t) ==
    [k \in 1..hours |->
        [timestamp |-> t - (60 * (hours - (k - 1))),
         cpu_percent |-> 600 + 50, memory_percent |-> 700 + 25,
         disk_percent |-> 450 + 25, network_mbps |-> 1000 + 100]]

\* HardwareMonitor.get_metrics_history: the dict it returns, or the exception
\* that the summary raises when there is no data point (the division by
\* len(data_points), then max() of an empty sequence).
hardware_get_metrics_history(hours, t) ==
    LET data_points == HardwareDataPoints(hours, t)
        cpu == [k \in 1..Len(data_points) |-> data_points[k].cpu_percent]
        memory == [k \in 1..Len(data_points) |-> data_points[k].memory_percent]
    IN  IF Len(data_points) = 0
        THEN ExceptionOf("ZeroDivisionError")
        ELSE [period_hours |-> hours,
              data_points |-> data_points,
              summary |-> [avg_cpu |-> Sum(cpu) \div Len(data_points),
                           max_cpu |-> MaxOf(cpu),
                           avg_memory |-> Sum(memory) \div Len(data_points),
                           max_memory |-> MaxOf(memory)]]

\* main.get_hardware_history: the endpoint's response; "except Exception" turns
\* an exception into HTTPException(500, detail=str(e)).
get_hardware_history(hours, t) ==
    LET history == hardware_get_metrics_history(hours, t)
    IN  IF IsException(history)
        THEN [status_code |-> 500, detail |-> "division by zero"]
        ELSE [status_code |-> 200, body |-> history]

\* MetricsCollector.get_metrics_history: one generated entry per five minutes
\* of the window, "for i in range(hours * 12)" with timestamp
\* now - (hours * 60 - i * 5) min.
get_metrics_history(hours, t) ==
    [k \in 1..(hours * 12) |->
        [timestamp |-> t - ((hours * 60) - ((k - 1) * 5)),
         requests_per_minute |-> 1000, avg_response_time_ms |-> 150,
         error_rate_percent |-> 1, cpu_percent |-> 650, memory_percent |-> 725]]

\* GET /api/hardware/history?hours=<hours>
HardwareHistory(hours) ==
    /\ queried' = [op |-> "get_hardware_history", hours |-> hours, at |-> now,
                   response |-> get_hardware_history(hours, now)]
    /\ UNCHANGED <<orchVars, now, alertVars, metrics_store, metrics_history, appended,
                   req>>

\* metrics_collector.get_metrics_history(hours)
MetricsHistory(hours) ==
    /\ queried' = [op |-> "get_metrics_history", hours |-> hours, at |-> now,
                   response |-> [status_code |-> 200,
                                 body |-> get_metrics_history(hours, now)]]
    /\ UNCHANGED <<orchVars, now, alertVars, metrics_store, metrics_history, appended,
                   req>>

HardwareHistoryQuery == \E hours \in QueryHours : HardwareHistory(hours)
MetricsHistoryQuery == \E hours \in QueryHours : MetricsHistory(hours)

----------------------------------------------------------------------------
(* ContainerOrchestrator (orchestration.py)                                *)

\* ContainerOrchestrator._initialize_containers
InitialContainers ==
    << [name |-> "api-service", replicas |-> [current |-> 3, desired |-> 3],
        cpu_percent |-> 450, memory_percent |-> 620, status |-> "healthy",
        restarts |-> 0, uptime_hours |-> 120],
       [name |-> "worker-queue", replicas |-> [current |-> 5, desired |-> 5],
        cpu_percent |-> 720, memory_percent |-> 580, status |-> "healthy",
        restarts |-> 1, uptime_hours |-> 96],
       [name |-> "database-primary", replicas |-> [current |-> 1, desired |-> 1],
        cpu_percent |-> 680, memory_percent |-> 810, status |-> "warning",
        restarts |-> 0, uptime_hours |-> 240],
       [name |-> "cache-redis", replicas |-> [current |-> 2, desired |-> 2],
        cpu_percent |-> 320, memory_percent |-> 450, status |-> "healthy",
        restarts |-> 0, uptime_hours |-> 180] >>

\* ContainerOrchestrator._initialize_load_balancer
InitialLoadBalancer ==
    [algorithm |-> "round_robin", health_check_interval |-> 10,
     health_check_timeout |-> 5,
     backends |-> << [id |-> "backend-1", status |-> "healthy", connections |-> 45],
                     [id |-> "backend-2", status |-> "healthy", connections |-> 52],
                     [id |-> "backend-3", status |-> "healthy", connections |-> 38] >>,
     total_connections |-> 135, requests_per_second |-> 234]

\* valid_algorithms of update_load_balancer
valid_algorithms == {"round_robin", "least_connections", "ip_hash", "weighted"}

\* A slip in the validation: the algorithm is written whatever it is.
update_load_balancer_unchecked(config, algorithm) ==
    [config EXCEPT !.algorithm = algorithm]

\* ContainerOrchestrator.update_load_balancer: the configuration after the call.
update_load_balancer(config, algorithm) ==
    IF algorithm \notin valid_algorithms THEN config
    ELSE [config EXCEPT !.algorithm = algorithm]

\* A slip in the lookup: when no container has the name, the loop variable is
\* used after the loop, where it is still bound to the last container.
FindContainerFallsThrough(cs, service_name) ==
    IF \E i \in 1..Len(cs) : cs[i].name = service_name
    THEN CHOOSE i \in 1..Len(cs) :
            /\ cs[i].name = service_name
            /\ \A j \in 1..(i - 1) : cs[j].name # service_name
    ELSE Len(cs)

\* The index of the first container with this name, 0 when there is none
\* ("for container in self.containers: if container["name"] == service_name").
FindContainer(cs, service_name) ==
    IF \E i \in 1..Len(cs) : cs[i].name = service_name
    THEN CHOOSE i \in 1..Len(cs) :
            /\ cs[i].name = service_name
            /\ \A j \in 1..(i - 1) : cs[j].name # service_name
    ELSE 0

\* The scale_service calls that may be in flight together.
ScaleCalls == {"s1", "s2"}

\* The arguments scale_service is called with: a container's name and a name
\* that no container has; two replica counts.
ScaleServices == {"api-service", "billing"}
ScaleReplicas == {2, 4}

\* The algorithms update_load_balancer is called with.
AlgorithmInputs == valid_algorithms \cup {"random"}

NoScale == [pc |-> "idle"]
NoOrchCall == [op |-> "none"]

\* scale_service up to its "await asyncio.sleep(1)": the lookup, old_replicas,
\* and the write of replicas.desired; a name that is not found returns at once.
ScaleStart(c, service_name, replicas) ==
    LET i == FindContainer(containers, service_name)
    IN  /\ scaling[c].pc = "idle"
        /\ IF i = 0
           THEN /\ orch_ret' = [op |-> "scale_service", call |-> c,
                                service |-> service_name, status |-> "error",
                                message |-> "not found"]
                /\ UNCHANGED <<containers, scaling>>
           ELSE /\ containers' = [containers EXCEPT ![i].replicas.desired = replicas]
                /\ scaling' = [scaling EXCEPT ![c] =
                                  [pc |-> "sleeping", container |-> i,
                                   service |-> service_name, replicas |-> replicas,
                                   old_replicas |-> containers[i].replicas.current]]
                /\ UNCHANGED orch_ret
        /\ UNCHANGED <<now, alertVars, historyVars, req, load_balancer_config, auto>>

\* scale_service after the sleep: the write of replicas.current, and the
\* success dict.
ScaleFinish(c) ==
    /\ scaling[c].pc = "sleeping"
    /\ containers' = [containers EXCEPT
                         ![scaling[c].container].replicas.current = scaling[c].replicas]
    /\ orch_ret' = [op |-> "scale_service", call |-> c, service |-> scaling[c].service,
                    status |-> "success", old_replicas |-> scaling[c].old_replicas,
                    new_replicas |-> scaling[c].replicas]
    /\ scaling' = [scaling EXCEPT ![c] = NoScale]
    /\ UNCHANGED <<now, alertVars, historyVars, req, load_balancer_config, auto>>

\* ContainerOrchestrator.update_load_balancer
UpdateLoadBalancer(algorithm) ==
    /\ load_balancer_config' = update_load_balancer(load_balancer_config, algorithm)
    /\ orch_ret' = IF algorithm \notin valid_algorithms
                   THEN [op |-> "update_load_balancer", algorithm |-> algorithm,
                         status |-> "error", message |-> "invalid algorithm"]
                   ELSE [op |-> "update_load_balancer", algorithm |-> algorithm,
                         status |-> "success",
                         old_algorithm |-> load_balancer_config.algorithm,
                         new_algorithm |-> algorithm]
    /\ UNCHANGED <<now, alertVars, historyVars, req, containers, scaling, auto>>

----------------------------------------------------------------------------
(* run_auto_optimization (main.py)                                         *)

\* CodeAnalyzer.get_recommendations
code_get_recommendations ==
    << [type |-> "cache_config", title |-> "Enable Redis caching",
        safe_to_auto_apply |-> TRUE] >>

\* DatabaseAnalyzer.get_recommendations
db_get_recommendations ==
    << [type |-> "database_index", table |-> "users", column |-> "email",
        safe_to_auto_apply |-> TRUE] >>

\* HardwareMonitor.get_scaling_recommendations: the dict it returns for the
\* metrics `current`.
get_scaling_recommendations(current) ==
    [recommendations |->
        (IF current.cpu_percent > 750 \/ current.memory_percent > 750
         THEN << [type |-> "Vertical Scaling", priority |-> "high"] >> ELSE << >>)
        \o << [type |-> "Horizontal Scaling", priority |-> "medium"] >>
        \o (IF current.disk_percent > 700
            THEN << [type |-> "Storage Scaling", priority |-> "medium"] >> ELSE << >>),
     current_metrics |-> current,
     estimated_roi |-> "3-6 months",
     risk_assessment |-> "low"]

\* NetworkAnalyzer.get_optimization_suggestions
get_optimization_suggestions ==
    << [title |-> "Enable HTTP/2", type |-> "protocol"],
       [title |-> "Implement gRPC for microservices", type |-> "protocol"],
       [title |-> "Enable compression (Brotli)", type |-> "compression"],
       [title |-> "Use CDN for static assets", type |-> "cdn"],
       [title |-> "Enable TCP Fast Open", type |-> "protocol"],
       [title |-> "Implement connection pooling", type |-> "connection"],
       [title |-> "Enable DNS prefetching", type |-> "optimization"] >>

\* What "for rec in rec_list" yields: the elements of a list, the keys of a dict
\* (strings) in the order the dict was built.
Iterate(rec_list) ==
    IF "list" \in DOMAIN rec_list THEN rec_list.list
    ELSE << [str |-> "recommendations"], [str |-> "current_metrics"],
            [str |-> "estimated_roi"], [str |-> "risk_assessment"] >>

\* The four results gather returns, each with its Python type, and the values
\* the two nested loops visit, in order.
AutoRecommendations(current) ==
    << [list |-> code_get_recommendations],
       [list |-> db_get_recommendations],
       [dict |-> get_scaling_recommendations(current)],
       [list |-> get_optimization_suggestions] >>

Visited(recommendations) ==
    Iterate(recommendations[1]) \o Iterate(recommendations[2])
    \o Iterate(recommendations[3]) \o Iterate(recommendations[4])

\* apply_optimization: the call it makes for the recommendation's type.
apply_optimization(recommendation) ==
    LET opt_type == DictGet(recommendation, "type", "None")
    IN  IF opt_type = "database_index" THEN "db_analyzer.create_index"
        ELSE IF opt_type = "cache_config" THEN "code_analyzer.enable_caching"
        ELSE IF opt_type = "container_scale" THEN "orchestrator.scale_service"
        ELSE "nothing"

\* The background task: where it stands, what gather returned, the position of
\* the loops, the recommendations handed to apply_optimization with the call
\* each led to, and the exception that ended the task.
AutoIdle ==
    [pc |-> "idle", recommendations |-> << >>, next |-> 1, applied |-> << >>,
     error |-> "none"]

\* The task starts: gather returns the four results (get_scaling_recommendations
\* reads the hardware metrics, which stores them).
AutoStart ==
    /\ auto.pc = "idle"
    /\ \E outcome \in Outcomes, reading \in HardwareReadings :
          /\ auto' = [auto EXCEPT
                         !.pc = "looping",
                         !.recommendations =
                             AutoRecommendations(get_current_metrics(outcome, reading, now))]
          /\ metrics_history' = HistoryAfterMetrics(metrics_history, outcome, reading, now)
          /\ appended' = [appended EXCEPT !.metrics = IF outcome = "ok" THEN @ + 1 ELSE @]
    /\ UNCHANGED <<now, alertVars, metrics_store, queried, req, containers,
                   load_balancer_config, scaling, orch_ret>>

\* One turn of the loops: the next value is tested with
\* rec.get("safe_to_auto_apply", False), which a string does not have
\* (AttributeError, uncaught: the task ends), and applied when flagged.
AutoStep ==
    /\ auto.pc = "looping"
    /\ LET visited == Visited(auto.recommendations)
       IN  IF auto.next > Len(visited)
           THEN auto' = [auto EXCEPT !.pc = "done"]
           ELSE LET rec == visited[auto.next]
                IN  IF "str" \in DOMAIN rec
                    THEN auto' = [auto EXCEPT !.pc = "failed",
                                              !.error = "AttributeError"]
                    ELSE IF DictGet(rec, "safe_to_auto_apply", FALSE)
                    THEN auto' = [auto EXCEPT
                                     !.next = @ + 1,
                                     !.applied = Append(@, [recommendation |-> rec,
                                                           call |-> apply_optimization(rec)])]
                    ELSE auto' = [auto EXCEPT !.next = @ + 1]
    /\ UNCHANGED <<now, alertVars, historyVars, req, containers, load_balancer_config,
                   scaling, orch_ret>>

ScaleBegin ==
    \E c \in ScaleCalls, service_name \in ScaleServices, replicas \in ScaleReplicas :
        ScaleStart(c, service_name, replicas)
ScaleEnd == \E c \in ScaleCalls : ScaleFinish(c)
LoadBalancer == \E algorithm \in AlgorithmInputs : UpdateLoadBalancer(algorithm)

----------------------------------------------------------------------------
vars == <<now, active_alerts, next_id, ret, metrics_store, metrics_history, req, appended,
         queried, containers, load_balancer_config, scaling, orch_ret, auto>>

Init ==
    /\ now = StartTime
    /\ active_alerts = InitialAlerts(StartTime)
    /\ next_id = Len(InitialAlerts(StartTime)) + 1
    /\ ret = NoCall
    /\ metrics_store = << >>
    /\ metrics_history = << >>
    /\ req = [r \in Requests |-> IdleRequest]
    /\ appended = [analysis |-> 0, metrics |-> 0]
    /\ queried = NoQuery
    /\ containers = InitialContainers
    /\ load_balancer_config = InitialLoadBalancer
    /\ scaling = [c \in ScaleCalls |-> NoScale]
    /\ orch_ret = NoOrchCall
    /\ auto = AutoIdle

\* The alert registry's calls.
AlertNext == Dismiss \/ Create \/ Check \/ Tick

AlertSpec == Init /\ [][AlertNext]_vars

\* The history stores.
HistoryNext == StoreAnalysisTask \/ GetCurrentMetrics \/ Tick

HistorySpec == Init /\ [][HistoryNext]_vars

\* The history stores with their queries.
QueryNext == HistoryNext \/ HardwareHistoryQuery \/ MetricsHistoryQuery

QuerySpec == Init /\ [][QueryNext]_vars

\* The analysis cycles.
Start == \E r \in Requests : StartCycle(r)
Hardware == \E r \in Requests : HardwareReturns(r)
Hang == \E r \in Requests : SourceHangs(r)
Gather == \E r \in Requests : GatherReturns(r)
Store == \E r \in Requests : RunStoreAnalysis(r)

CycleNext == Start \/ Hardware \/ Hang \/ Gather \/ Store \/ Tick

CycleSpec == Init /\ [][CycleNext]_vars

\* The event loop runs every coroutine and background task that can run; it
\* schedules neither the arrival of requests nor the clock, and a source that
\* hangs stays hung.
CycleFairness ==
    \A r \in Requests :
        /\ WF_vars(HardwareReturns(r))
        /\ WF_vars(GatherReturns(r))
        /\ WF_vars(RunStoreAnalysis(r))

FairCycleSpec == CycleSpec /\ CycleFairness

\* The orchestrator's calls and the auto-optimization task.
OrchNext == ScaleBegin \/ ScaleEnd \/ LoadBalancer \/ AutoStart \/ AutoStep

OrchSpec == Init /\ [][OrchNext]_vars

\* The whole backend.  The parts share no state but the clock and the history
\* stores, and are checked one at a time.
Next == AlertNext \/ QueryNext \/ CycleNext \/ OrchNext

Spec == Init /\ [][Next]_vars

----------------------------------------------------------------------------
(* Claims about the alert registry (checked under AlertSpec).              *)

\* The dedup key of an alert: the rule that raised it (its title and limit)
\* and its target metric.
DedupKey(a) == <<a.title, a.metric, a.threshold>>

\* The indices of the active alerts with the key of this rule.
ActiveFor(alerts, rule) ==
    { i \in 1..Len(alerts) :
        /\ alerts[i].status = "active"
        /\ DedupKey(alerts[i]) = <<rule.title, rule.metric, rule.limit>> }

\* C2: the registry never holds two active alerts on a metric with the same
\* dedup key (same rule and same target metric).
C2_NoDuplicateActiveAlerts ==
    \A i, j \in 1..Len(active_alerts) :
        ( /\ i # j
          /\ active_alerts[i].metric # NoMetric
          /\ active_alerts[i].status = "active"
          /\ active_alerts[j].status = "active" )
        => DedupKey(active_alerts[i]) # DedupKey(active_alerts[j])

\* C5: a breach of a rule that already has an active alert raised at this very
\* instant (so within any cooldown) adds no alert: one active alert for the key
\* remains, and the call returns "suppressed" with the existing alert's id.
C5_BreachWithinCooldownSuppressed ==
    [][ \A metrics \in MetricsInputs : \A k \in 1..Len(Rules) :
          ( /\ CheckThresholds(metrics)
            /\ Breaches(metrics, Rules[k])
            /\ \E i \in ActiveFor(active_alerts, Rules[k]) : active_alerts[i].time = now )
          => ( /\ Cardinality(ActiveFor(active_alerts', Rules[k])) = 1
               /\ ret'.status = "suppressed"
               /\ \E i \in ActiveFor(active_alerts, Rules[k]) :
                      ret'.alerts = <<active_alerts[i].id>> ) ]_vars

\* C6: a breach of a rule whose active alert was raised earlier (the cooldown
\* has elapsed) updates that alert in place: same id, current_value and
\* raised_at refreshed, and no alert with another id for the key.
C6_BreachAfterCooldownUpdatesInPlace ==
    [][ \A metrics \in MetricsInputs : \A k \in 1..Len(Rules) :
          ( /\ CheckThresholds(metrics)
            /\ Breaches(metrics, Rules[k])
            /\ \E i \in ActiveFor(active_alerts, Rules[k]) : active_alerts[i].time < now )
          => ( /\ ActiveFor(active_alerts', Rules[k]) = ActiveFor(active_alerts, Rules[k])
               /\ \A i \in ActiveFor(active_alerts, Rules[k]) :
                      /\ active_alerts'[i].id = active_alerts[i].id
                      /\ active_alerts'[i].current_value = metrics[Rules[k].metric]
                      /\ active_alerts'[i].time = now ) ]_vars

\* C7: dismiss_alert on an alert that is already dismissed leaves it dismissed
\* (and acknowledged), as after the first call, and reports success, not an
\* error; the status of every other alert stays as it was.
C7_DismissIdempotent ==
    [][ \A alert_id \in DismissIds :
          DismissAlert(alert_id) =>
            \A i \in 1..Len(active_alerts) :
              (active_alerts[i].id = alert_id /\ active_alerts[i].status = "dismissed")
              => ( /\ Len(active_alerts') = Len(active_alerts)
                   /\ active_alerts'[i].status = "dismissed"
                   /\ active_alerts'[i].acknowledged
                   /\ ret'.status = "success"
                   /\ \A j \in 1..Len(active_alerts) :
                          j # i => active_alerts'[j] = active_alerts[j] ) ]_vars

\* A second dismiss_alert of the same alert has returned.
C7_Witness ==
    /\ ret.op = "dismiss_alert"
    /\ ret.before = "dismissed"
    /\ ret.status = "success"
    /\ \E i \in 1..Len(active_alerts) :
          active_alerts[i].id = ret.alert_id /\ active_alerts[i].status = "dismissed"

\* C8: dismiss_alert on an alert that is already dismissed changes no field of
\* it, dismissed_at included.
C8_SecondDismissChangesNothing ==
    [][ \A alert_id \in DismissIds :
          DismissAlert(alert_id) =>
            \A i \in 1..Len(active_alerts) :
              (active_alerts[i].id = alert_id /\ active_alerts[i].status = "dismissed")
              => active_alerts'[i] = active_alerts[i] ]_vars

\* C9: dismiss_alert with an id that no alert has returns the error outcome
\* "not found", distinct from the success outcome, and changes no alert.
C9_DismissUnknownId ==
    [][ \A alert_id \in DismissIds :
          ( /\ DismissAlert(alert_id)
            /\ \A i \in 1..Len(active_alerts) : active_alerts[i].id # alert_id )
          => ( /\ active_alerts' = active_alerts
               /\ ret'.status = "error"
               /\ ret'.message = "not found"
               /\ ret'.alerts = << >> ) ]_vars

\* dismiss_alert has returned "not found" for an id that no alert has.
C9_Witness ==
    /\ ret.op = "dismiss_alert"
    /\ ret.status = "error"
    /\ ret.message = "not found"
    /\ \A i \in 1..Len(active_alerts) : active_alerts[i].id # ret.alert_id


\* C13: threshold evaluation is pure: a check_thresholds call leaves the alert
\* registry and the source of generated ids as they were, so that a second
\* call with the same metrics meets the same state and returns the same alerts.
C13_CheckThresholdsIsPure ==
    [][ \A metrics \in MetricsInputs :
          CheckThresholds(metrics) =>
            /\ active_alerts' = active_alerts
            /\ next_id' = next_id ]_vars

\* The alerts the last call appended to the registry `before`.
Appended(before, after) == SubSeq(after, Len(before) + 1, Len(after))

\* C14: check_thresholds emits an alert for a rule exactly when the metric is
\* strictly above the limit (cpu_percent > 85, memory_percent > 85,
\* error_rate_percent > 1): then one alert, active, with the breaching value as
\* current_value, the limit as threshold and the rule's severity; at the limit
\* or below it, none.
C14_AlertExactlyOnStrictBreach ==
    [][ \A metrics \in MetricsInputs :
          CheckThresholds(metrics) =>
            LET created == Appended(active_alerts, active_alerts')
                expected == << [metric |-> "cpu_percent", limit |-> 850,
                                severity |-> "warning"],
                               [metric |-> "memory_percent", limit |-> 850,
                                severity |-> "warning"],
                               [metric |-> "error_rate_percent", limit |-> 10,
                                severity |-> "critical"] >>
            IN  /\ ret'.alerts = Ids(created)
                /\ \A k \in 1..Len(created) :
                      \E e \in 1..Len(expected) : created[k].metric = expected[e].metric
                /\ \A e \in 1..Len(expected) :
                      LET emitted == { k \in 1..Len(created) :
                                          created[k].metric = expected[e].metric }
                      IN  IF /\ expected[e].metric \in DOMAIN metrics
                             /\ metrics[expected[e].metric] > expected[e].limit
                          THEN /\ Cardinality(emitted) = 1
                               /\ \A k \in emitted :
                                     /\ created[k].status = "active"
                                     /\ created[k].current_value = metrics[expected[e].metric]
                                     /\ created[k].threshold = expected[e].limit
                                     /\ created[k].severity = expected[e].severity
                          ELSE emitted = {} ]_vars

\* The alerts of the registry that the last call returned.
Returned == SelectSeq(active_alerts, LAMBDA a : \E k \in 1..Len(ret.alerts) : ret.alerts[k] = a.id)

\* check_thresholds has returned an alert for a CPU reading above the limit.
C14_Witness ==
    /\ ret.op = "check_thresholds"
    /\ \E k \in 1..Len(Returned) :
          /\ Returned[k].metric = "cpu_percent"
          /\ Returned[k].status = "active"
          /\ Returned[k].threshold = CpuLimit
          /\ Returned[k].current_value > CpuLimit

\* C15: a rule whose metric the metrics dict lacks is skipped: check_thresholds
\* emits no alert for it, returns normally, and still emits the alerts of the
\* other rules that breach.
C15_AbsentMetricSkipsRule ==
    [][ \A metrics \in MetricsInputs :
          ( /\ CheckThresholds(metrics)
            /\ \E k \in 1..Len(Rules) : Rules[k].metric \notin DOMAIN metrics )
          => LET created == Appended(active_alerts, active_alerts')
             IN  /\ ret'.op = "check_thresholds"
                 /\ ret'.status = "success"
                 /\ \A k \in 1..Len(Rules) :
                       IF Rules[k].metric \notin DOMAIN metrics
                       THEN \A i \in 1..Len(created) : created[i].metric # Rules[k].metric
                       ELSE metrics[Rules[k].metric] > Rules[k].limit
                            => \E i \in 1..Len(created) :
                                  created[i].metric = Rules[k].metric ]_vars

\* check_thresholds has returned an error-rate alert and no memory alert: the
\* metrics it was given lacked memory_percent (every memory reading tried is
\* above the limit), and the error-rate rule was evaluated all the same.
C15_Witness ==
    /\ ret.op = "check_thresholds"
    /\ ret.status = "success"
    /\ \E k \in 1..Len(Returned) : Returned[k].metric = "error_rate_percent"
    /\ \A k \in 1..Len(Returned) : Returned[k].metric # "memory_percent"

\* C19: get_active_alerts returns the active alerts with non-decreasing raise
\* times, in every reachable state.
C19_ActiveAlertsOrderedByTime ==
    LET listed == get_active_alerts(active_alerts)
    IN  \A i, j \in 1..Len(listed) : i < j => listed[i].time <= listed[j].time

\* C27: dismissed is a terminal status: an alert that is dismissed stays in
\* the registry, dismissed, through every later create_alert, check_thresholds
\* and dismiss_alert call, and get_active_alerts does not return it.
C27_DismissedIsTerminal ==
    [][ \A i \in 1..Len(active_alerts) :
          active_alerts[i].status = "dismissed"
          => /\ i <= Len(active_alerts')
             /\ active_alerts'[i].id = active_alerts[i].id
             /\ active_alerts'[i].status = "dismissed"
             /\ \A k \in 1..Len(get_active_alerts(active_alerts')) :
                    get_active_alerts(active_alerts')[k].id # active_alerts[i].id ]_vars

\* An alert was dismissed, was dismissed once more, and alerts were created
\* after that; it is still dismissed.
C27_Witness ==
    /\ \E i \in 1..Len(active_alerts) :
          /\ active_alerts[i].status = "dismissed"
          /\ active_alerts[i].dismissed_at > active_alerts[i].time
          /\ \E j \in (i + 1)..Len(active_alerts) :
                active_alerts[j].time >= active_alerts[i].dismissed_at
    /\ ret.op \in {"create_alert", "check_thresholds"}
    /\ ret.alerts # << >>

----------------------------------------------------------------------------
(* Claims about the history stores (checked under HistorySpec).             *)

Min(a, b) == IF a <= b THEN a ELSE b

\* C3: neither history store ever holds more entries than its capacity, and
\* once more entries than the capacity have been appended it holds exactly
\* the capacity: after n appends it holds min(n, capacity) entries.
C3_HistoryWithinCapacity ==
    /\ Len(metrics_store) <= MetricsStoreLimit
    /\ Len(metrics_store) = Min(appended.analysis, MetricsStoreLimit)
    /\ Len(metrics_history) <= max_history_size
    /\ Len(metrics_history) = Min(appended.metrics, max_history_size)

\* Capacity + 1 entries have been appended to each store.
C3_Witness ==
    /\ appended.analysis = MetricsStoreLimit + 1
    /\ Len(metrics_store) = MetricsStoreLimit
    /\ appended.metrics = max_history_size + 1
    /\ Len(metrics_history) = max_history_size

\* The last n entries of a sequence, all of it when it is shorter.
LastN(seq, n) == SubSeq(seq, Max(1, Len(seq) - n + 1), Len(seq))

\* C16: eviction is FIFO: every append leaves in the store the last `capacity`
\* entries of the old content followed by the new entry, in that order, so the
\* entry that goes is the oldest; by induction the store holds, after n
\* appends, the last min(n, capacity) appended entries in append order.
C16_EvictionIsFIFO ==
    [][ /\ (appended'.analysis # appended.analysis) =>
              \E analysis_data \in AnalysisInputs :
                  metrics_store' =
                      LastN(Append(metrics_store,
                                   [timestamp |-> now, data |-> analysis_data]),
                            MetricsStoreLimit)
        /\ (appended'.metrics # appended.metrics) =>
              \E reading \in HardwareReadings :
                  metrics_history' =
                      LastN(Append(metrics_history, HardwareMetrics(reading, now)),
                            max_history_size) ]_vars

\* More entries than the capacity were appended to each store, and each store
\* holds entries that differ, the newest one last.
C16_Witness ==
    /\ appended.analysis > MetricsStoreLimit
    /\ appended.metrics > max_history_size
    /\ Len(metrics_store) = MetricsStoreLimit
    /\ Len(metrics_history) = max_history_size
    /\ metrics_store[1] # metrics_store[MetricsStoreLimit]
    /\ metrics_history[1] # metrics_history[max_history_size]
    /\ metrics_store[MetricsStoreLimit].timestamp = now
    /\ metrics_history[max_history_size].timestamp = now

\* The entries of `new` but the last are the entries of `old`, or those of its
\* tail, unchanged and in their order; or `new` is `old`.
KeptFrom(old, new) ==
    \/ new = old
    \/ /\ new # << >>
       /\ \E shift \in 0..1 :
             /\ Len(new) - 1 = Len(old) - shift
             /\ \A k \in 1..(Len(new) - 1) : new[k] = old[k + shift]

\* C23: a stored snapshot is never mutated: whatever step is taken, the
\* entries that stay in a store are the old entries, unchanged and in their
\* order (the old content, or a tail of it followed by one new entry).
C23_StoredSnapshotsImmutable ==
    [][ /\ KeptFrom(metrics_store, metrics_store')
        /\ KeptFrom(metrics_history, metrics_history') ]_vars

\* Each store has evicted an entry and still holds an entry of an earlier
\* time, next to a newer one.
C23_Witness ==
    /\ appended.analysis > MetricsStoreLimit
    /\ appended.metrics > max_history_size
    /\ metrics_store[1].timestamp < metrics_store[Len(metrics_store)].timestamp
    /\ metrics_history[1].timestamp < metrics_history[Len(metrics_history)].timestamp

----------------------------------------------------------------------------
(* Claims about the history queries (checked under QuerySpec).              *)

\* The entries of a store captured at or after `since`, oldest first.
Since(store, since) == SelectSeq(store, LAMBDA e : e.timestamp >= since)

\* C17: a history query that answers returns the snapshots that were appended
\* to the stream: exactly the stored entries captured at or after
\* since = now - hours, oldest first.
C17_QueryReturnsStoredSnapshots ==
    [][ \A hours \in QueryHours :
          /\ (HardwareHistory(hours) /\ queried'.response.status_code = 200)
             => queried'.response.body.data_points
                    = Since(metrics_history, now - (60 * hours))
          /\ MetricsHistory(hours)
             => queried'.response.body = Since(metrics_store, now - (60 * hours)) ]_vars

\* C18: a history query whose window holds no data (hours = 0) answers with an
\* empty sequence and not with an error.
C18_EmptyWindowReturnsEmpty ==
    [][ /\ HardwareHistory(0)
           => /\ queried'.response.status_code = 200
              /\ queried'.response.body.data_points = << >>
        /\ MetricsHistory(0)
           => /\ queried'.response.status_code = 200
              /\ queried'.response.body = << >> ]_vars

----------------------------------------------------------------------------
(* Claims about the analysis cycle (checked under CycleSpec, and under      *)
(* FairCycleSpec where the claim is that something eventually happens).     *)

Responded(r) == req[r].pc = "responded"

\* C1: a cycle never fails wholesale: whichever sources raise, the cycle
\* responds with a result, schedules store_analysis, and does not end in
\* "Analysis failed".
C1_CycleNeverFailsWholesale ==
    \A r \in Requests :
        Responded(r) =>
            /\ req[r].response.status_code = 200
            /\ req[r].task \in {"pending", "done"}

\* The entry the result of a cycle holds for each source: the details dict of
\* the source, or the score read from it.
Snapshots(response) ==
    IF response.status_code = 200
    THEN [code |-> response.body.software.details,
          database |-> response.body.software.dbOptimization,
          async |-> response.body.software.asyncProcessing,
          hardware |-> response.body.hardware.details,
          network |-> response.body.network.details,
          container |-> response.body.io.details]
    ELSE << >>

\* C4: the result of every cycle holds exactly one entry per source, whatever
\* combination of sources succeeds or fails.
C4_OneSnapshotPerSource ==
    \A r \in Requests :
        Responded(r) => DOMAIN Snapshots(req[r].response) = SourceNames

\* C10: a source that never returns does not block the cycle: the cycle
\* eventually responds.
C10_HungSourceDoesNotBlock ==
    \A r \in Requests :
        (req[r].pc = "gathering" /\ req[r].hung # {}) ~> Responded(r)

\* A cycle is in flight from the arrival of its request until its response has
\* been sent and its history write has run.
InFlight(r) == req[r].pc = "gathering" \/ req[r].task = "pending"

\* C11: cycles run sequentially: at no time are two cycles in flight together.
C11_CyclesRunSequentially ==
    \A r1, r2 \in Requests : (InFlight(r1) /\ InFlight(r2)) => r1 = r2

\* A completed cycle: the response holds the result and the history write ran.
Completed(r) ==
    /\ Responded(r)
    /\ req[r].response.status_code = 200
    /\ req[r].task = "done"

\* C12: a completed cycle has appended its snapshot to the history store and,
\* for every rule that a collected metric breaches, an alert of that rule is in
\* the alert registry.
C12_CycleStoresThenRaisesAlerts ==
    \A r \in Requests :
        Completed(r) =>
            /\ \E k \in 1..Len(metrics_store) :
                  metrics_store[k].data = req[r].response.body
            /\ \A k \in 1..Len(Rules) :
                  ( /\ Rules[k].metric \in DOMAIN req[r].hardware
                    /\ req[r].hardware[Rules[k].metric] > Rules[k].limit )
                  => ActiveFor(active_alerts, Rules[k]) # {}

\* The result gather returned for a source.
ResultOf(r, source) ==
    req[r].results[CHOOSE k \in 1..Len(Sources) : Sources[k] = source]

\* The sources that catch their own exceptions.
GuardedSources == {"hardware", "network", "container"}

\* C20: a source in whose body an exception arose returns a result that is
\* marked as failed, with an error description, which no result of a
\* successful collection carries.
C20_FailedSourceIsMarked ==
    \A r \in Requests :
        Responded(r) =>
            \A source \in GuardedSources :
                /\ source \in req[r].raised => "error" \in DOMAIN ResultOf(r, source)
                /\ source \notin req[r].raised => "error" \notin DOMAIN ResultOf(r, source)

\* C21: the stored view changes only at the end of a successful cycle: a cycle
\* that ends in an error schedules no store_analysis and leaves metrics_store
\* as it was, and a successful one adds one entry, once, that holds the
\* cycle's merged results.
C21_StoreChangesOnlyAfterSuccess ==
    /\ [](/\ appended.analysis = Cardinality({ r \in Requests : req[r].task = "done" })
          /\ \A r \in Requests :
                (Responded(r) /\ req[r].response.status_code # 200)
                => req[r].task = "none")
    /\ [][ /\ \A r \in Requests :
                (req'[r].pc = "responded" /\ req[r].pc # "responded")
                => metrics_store' = metrics_store
           /\ (metrics_store' # metrics_store)
              => \E r \in Requests :
                    /\ Responded(r)
                    /\ req[r].response.status_code = 200
                    /\ req[r].task = "pending"
                    /\ req'[r].task = "done"
                    /\ metrics_store' =
                          LastN(Append(metrics_store,
                                       [timestamp |-> now,
                                        data |-> req[r].response.body]),
                                MetricsStoreLimit) ]_vars

\* One cycle has ended in an error and another has completed: the store holds
\* the one entry of the cycle that succeeded.
C21_Witness ==
    \E r1, r2 \in Requests :
        /\ Responded(r1)
        /\ req[r1].response.status_code = 500
        /\ req[r1].task = "none"
        /\ Completed(r2)
        /\ Len(metrics_store) = 1
        /\ metrics_store[1].data = req[r2].response.body

\* C22: within metrics_store the capture times are strictly increasing, in
\* whatever order the store_analysis tasks of several cycles run.
C22_TimestampsStrictlyIncreasing ==
    \A k \in 1..(Len(metrics_store) - 1) :
        metrics_store[k].timestamp < metrics_store[k + 1].timestamp

\* C24: a cycle in which a source fails leaves the alert registry, and with it
\* the list get_active_alerts returns, as it was: no step of such a cycle
\* changes them.
C24_FailedSourceLeavesAlerts ==
    [][ \A r \in Requests :
          (req'[r] # req[r] /\ req'[r].raised # {})
          => /\ active_alerts' = active_alerts
             /\ get_active_alerts(active_alerts') = get_active_alerts(active_alerts) ]_vars

\* A cycle in which a source failed has completed, its hardware source having
\* read a CPU above the limit; the registry holds the alerts it held before.
C24_Witness ==
    \E r \in Requests :
        /\ Completed(r)
        /\ req[r].raised # {}
        /\ "hardware" \notin req[r].raised
        /\ req[r].hardware.cpu_percent > CpuLimit
        /\ active_alerts = InitialAlerts(StartTime)

----------------------------------------------------------------------------
(* Claims about the orchestrator and the auto-optimization task (checked    *)
(* under OrchSpec).                                                         *)

\* The recommendations flagged safe_to_auto_apply among those of the four
\* sources, in the order of the sources.
FlaggedSafe(recommendations) ==
    SelectSeq(recommendations[1].list \o recommendations[2].list
              \o recommendations[3].dict.recommendations \o recommendations[4].list,
              LAMBDA rec : DictGet(rec, "safe_to_auto_apply", FALSE))

\* C25: run_auto_optimization ends without an error, having handed to
\* apply_optimization every recommendation flagged safe_to_auto_apply of the
\* four sources, and no other.
C25_AutoOptimizationAppliesAllSafe ==
    auto.pc \in {"done", "failed"}
    => /\ auto.pc = "done"
       /\ auto.error = "none"
       /\ [k \in 1..Len(auto.applied) |-> auto.applied[k].recommendation]
              = FlaggedSafe(auto.recommendations)

\* C26: whenever no scale_service call is in flight, every container has
\* replicas.current equal to replicas.desired.
C26_ReplicasSettleAtDesired ==
    (\A c \in ScaleCalls : scaling[c].pc = "idle")
    => \A i \in 1..Len(containers) :
          containers[i].replicas.current = containers[i].replicas.desired

\* C28: the load balancer algorithm is always one of round_robin,
\* least_connections, ip_hash, weighted: update_load_balancer with another
\* value returns an error and leaves the configuration as it was, and with one
\* of the four sets the algorithm field and nothing else.
C28_LoadBalancerAlgorithmValid ==
    /\ [](load_balancer_config.algorithm
             \in {"round_robin", "least_connections", "ip_hash", "weighted"})
    /\ [][ \A algorithm \in AlgorithmInputs :
             UpdateLoadBalancer(algorithm) =>
               IF algorithm \in {"round_robin", "least_connections", "ip_hash", "weighted"}
               THEN /\ load_balancer_config'.algorithm = algorithm
                    /\ load_balancer_config'
                          = [load_balancer_config EXCEPT !.algorithm = algorithm]
                    /\ orch_ret'.status = "success"
               ELSE /\ load_balancer_config' = load_balancer_config
                    /\ orch_ret'.status = "error" ]_vars

\* update_load_balancer has rejected an algorithm that is not valid, after a
\* call that changed the algorithm.
C28_Witness ==
    /\ orch_ret.op = "update_load_balancer"
    /\ orch_ret.status = "error"
    /\ orch_ret.algorithm \notin {"round_robin", "least_connections", "ip_hash", "weighted"}
    /\ load_balancer_config.algorithm = "weighted"

\* C29: scale_service with a name that no container has returns an error and
\* changes no container; with a container's name it changes that container
\* only, and of it the replicas only.
C29_ScaleTouchesNamedServiceOnly ==
    [][ /\ \A c \in ScaleCalls, service_name \in ScaleServices, replicas \in ScaleReplicas :
              ScaleStart(c, service_name, replicas) =>
                IF \A i \in 1..Len(containers) : containers[i].name # service_name
                THEN /\ containers' = containers
                     /\ orch_ret'.op = "scale_service"
                     /\ orch_ret'.status = "error"
                ELSE \A i \in 1..Len(containers) :
                        IF containers[i].name = service_name
                        THEN /\ containers'[i].replicas.desired = replicas
                             /\ [containers'[i] EXCEPT !.replicas = containers[i].replicas]
                                    = containers[i]
                        ELSE containers'[i] = containers[i]
        /\ \A c \in ScaleCalls :
              ScaleFinish(c) =>
                /\ orch_ret'.status = "success"
                /\ \A i \in 1..Len(containers) :
                      IF containers[i].name = scaling[c].service
                      THEN /\ containers'[i].replicas.current = scaling[c].replicas
                           /\ [containers'[i] EXCEPT !.replicas = containers[i].replicas]
                                  = containers[i]
                      ELSE containers'[i] = containers[i] ]_vars

\* scale_service has returned an error for a name that no container has, after
\* a call that scaled api-service; the other containers are as they were.
C29_Witness ==
    /\ orch_ret.op = "scale_service"
    /\ orch_ret.status = "error"
    /\ \A i \in 1..Len(containers) : containers[i].name # orch_ret.service
    /\ containers[1].replicas = [current |-> 4, desired |-> 4]
    /\ \A i \in 2..Len(containers) : containers[i] = InitialContainers[i]

====
